---------------------------- MODULE Spec2Model ----------------------------
(***************************************************************************)
(* Model of geodist-rs/src/polyline.rs: polyline densification and the     *)
(* directed / symmetric Hausdorff evaluation over the densified samples.   *)
(*                                                                         *)
(* Numbers.  The program computes in f64; the model computes in integers.  *)
(* A coordinate is a whole number of grid steps, a distance is a whole     *)
(* number of distance units, and one distance unit is the witness          *)
(* tolerance (WITNESS_DISTANCE_TOLERANCE_M, 1e-12 m), so that distances    *)
(* that differ by no more than the tolerance without being equal exist,    *)
(* as they do in f64.  Two grid steps make one distance unit: two distinct *)
(* points less than a unit apart are at distance 0, as two distinct f64    *)
(* points are when sin^2 underflows in spherical_distance.                 *)
(*                                                                         *)
(* Option<T> is a sequence: None is << >>, Some(x) is << x >>.             *)
(* Result<T, E> is a record with the field ok.                             *)
(* Indices are 0-based as in the source; Seq positions are index + 1.      *)
(***************************************************************************)
EXTENDS Integers, Sequences, FiniteSets, TLC

VARIABLES pc, call, result

vars == <<pc, call, result>>

-----------------------------------------------------------------------------
(* Bounds of the model *)

\* Largest longitude of an input vertex, in distance units.
MaxCoord == 2
\* Most vertices of the polyline handed to densify_polyline.
MaxVerts == 3
\* Most vertices, over all parts, handed to densify_multiline.
MaxTotalVerts == 4
\* Largest longitude of a vertex handed to densify_multiline, in distance
\* units.
MaxPartCoord == 1
\* Largest sample cap.
MaxCap == 3
\* Largest longitude of a sample handed to a directed evaluation, in
\* distance units.
MaxSampleCoord == 2
\* Most samples, origins and candidates together, handed to a directed
\* evaluation.
MaxSamples == 4
\* Largest longitude of a vertex handed to hausdorff_polyline, in pairs of
\* distance units.
MaxHausdorffCoord == 2

\* Largest size of a sample set handed to the strategy selector.
MaxStrategySize == 130

\* Most samples of a FlattenedPolyline handed to clip.
MaxClipSamples == 3

\* The longest unchecked vertex sequence handed to densify_polyline.
MaxUncheckedVerts == 3

\* The most vertices, over all its parts, of an unchecked multi-part input.
MaxUncheckedTotalVerts == 4

\* The vertices of an input densified with knobs down to the smallest.
MaxWordVerts == 3

-----------------------------------------------------------------------------
(* Option, Result and the error values of GeodistError *)

None == << >>
Some(x) == << x >>
IsSome(o) == o # << >>
Unwrap(o) == o[1]

Ok(v) == [ok |-> TRUE, value |-> v]

MissingDensificationKnob ==
  [ok |-> FALSE, error |-> "MissingDensificationKnob"]

EmptyPointSet ==
  [ok |-> FALSE, error |-> "EmptyPointSet"]

DegeneratePolyline(part_index) ==
  [ok |-> FALSE, error |-> "DegeneratePolyline", part_index |-> part_index]

InvalidVertex(part_index, vertex_index, axis) ==
  [ok |-> FALSE, error |-> "InvalidVertex", part_index |-> part_index,
   vertex_index |-> vertex_index, axis |-> axis]

SampleCapExceeded(expected, cap, part_index) ==
  [ok |-> FALSE, error |-> "SampleCapExceeded", expected |-> expected,
   cap |-> cap, part_index |-> part_index]

-----------------------------------------------------------------------------
(* Arithmetic helpers *)

Abs(x) == IF x < 0 THEN -x ELSE x

Max(a, b) == IF a >= b THEN a ELSE b

\* f64::ceil of a quotient of two non-negative numbers, den > 0.
CeilDiv(num, den) == (num + den - 1) \div den

\* f64::sqrt, rounded down to a whole number.
ISqrt(n) == CHOOSE r \in 0..n : r * r <= n /\ (r + 1) * (r + 1) > n

RECURSIVE SumSeq(_)
SumSeq(s) == IF s = << >> THEN 0 ELSE Head(s) + SumSeq(Tail(s))

RECURSIVE Concat(_)
Concat(ss) == IF ss = << >> THEN << >> ELSE Head(ss) \o Concat(Tail(ss))

-----------------------------------------------------------------------------
(* Points and the geodesic kernel *)

Point(lat, lon) == [lat |-> lat, lon |-> lon]

\* The coordinate range, in grid steps.
MAX_LAT_DEGREES == 90
MIN_LAT_DEGREES == -90
MAX_LON_DEGREES == 180
MIN_LON_DEGREES == -180

\* A coordinate that is not finite: one value outside every range stands
\* for NaN and the infinities.
NaN == 10 * MAX_LON_DEGREES

\* f64::is_finite
IsFinite(x) == x # NaN

\* spherical_distance between two valid points, in distance units: the
\* haversine formula in its small-angle form (sin x = x, cos lat = 1),
\* a = (dlat/2)^2 + (dlon/2)^2 and c = 2 * sqrt(a), two grid steps to the
\* distance unit, rounded down.  It is 0 for equal points, symmetric, and 0
\* for distinct points less than one unit apart.
geodesic_distance(p1, p2) ==
  LET delta_lat == p2.lat - p1.lat
      delta_lon == p2.lon - p1.lon
  IN  ISqrt(delta_lat * delta_lat + delta_lon * delta_lon) \div 2


-----------------------------------------------------------------------------
(* Densification options *)

DensificationOptions(max_segment_length_m, max_segment_angle_deg, sample_cap) ==
  [max_segment_length_m |-> max_segment_length_m,
   max_segment_angle_deg |-> max_segment_angle_deg,
   sample_cap |-> sample_cap]

\* DensificationOptions::validate: TRUE when it returns Ok(()).
validate(options) ==
  ~(options.max_segment_length_m = None /\ options.max_segment_angle_deg = None)

-----------------------------------------------------------------------------
(* Vertex validation and de-duplication *)

RECURSIVE check_from_longitude_first(_, _, _)
\* check_from looking at the longitude of a vertex before its latitude.
check_from_longitude_first(vertices, index, part_index) ==
  IF index >= Len(vertices) THEN Ok(<< >>)
  ELSE LET vertex == vertices[index + 1]
       IN  IF \/ ~IsFinite(vertex.lon)
              \/ vertex.lon < MIN_LON_DEGREES
              \/ vertex.lon > MAX_LON_DEGREES
           THEN InvalidVertex(part_index, index, "Longitude")
           ELSE IF \/ ~IsFinite(vertex.lat)
                   \/ vertex.lat < MIN_LAT_DEGREES
                   \/ vertex.lat > MAX_LAT_DEGREES
                THEN InvalidVertex(part_index, index, "Latitude")
                ELSE check_from_longitude_first(vertices, index + 1, part_index)

RECURSIVE check_from(_, _, _)
\* VertexValidator::check_vertices from 0-based position index on.
check_from(vertices, index, part_index) ==
  IF index >= Len(vertices) THEN Ok(<< >>)
  ELSE LET vertex == vertices[index + 1]
       IN  IF \/ ~IsFinite(vertex.lat)
              \/ vertex.lat < MIN_LAT_DEGREES
              \/ vertex.lat > MAX_LAT_DEGREES
           THEN InvalidVertex(part_index, index, "Latitude")
           ELSE IF \/ ~IsFinite(vertex.lon)
                   \/ vertex.lon < MIN_LON_DEGREES
                   \/ vertex.lon > MAX_LON_DEGREES
                THEN InvalidVertex(part_index, index, "Longitude")
                ELSE check_from(vertices, index + 1, part_index)

check_vertices(vertices, part_index) == check_from(vertices, 0, part_index)

RECURSIVE collapse_duplicates(_)
\* Keeps a vertex unless it equals the vertex kept last.
collapse_duplicates(vertices) ==
  IF Len(vertices) <= 1 THEN vertices
  ELSE LET front == collapse_duplicates(SubSeq(vertices, 1, Len(vertices) - 1))
           vertex == vertices[Len(vertices)]
       IN  IF front[Len(front)] # vertex THEN Append(front, vertex) ELSE front

\* validate_polyline counting the vertices before the duplicates are
\* collapsed.
validate_polyline_counting_before_collapse(vertices, part_index) ==
  LET checked == check_vertices(vertices, part_index)
      deduped == collapse_duplicates(vertices)
  IN  IF ~checked.ok THEN checked
      ELSE IF Len(vertices) < 2 THEN DegeneratePolyline(part_index)
      ELSE Ok(deduped)

validate_polyline(vertices, part_index) ==
  LET checked == check_vertices(vertices, part_index)
      deduped == collapse_duplicates(vertices)
  IN  IF ~checked.ok THEN checked
      ELSE IF Len(deduped) < 2 THEN DegeneratePolyline(part_index)
      ELSE Ok(deduped)

-----------------------------------------------------------------------------
(* Segments *)

\* Degrees of central angle subtended by one distance unit: the factors
\* 1 / EARTH_RADIUS_METERS and 180 / PI, in the model's units.
DEGREES_PER_UNIT == 2

\* f64 division by EARTH_RADIUS_METERS: the central angle, in the unit of
\* angle one distance unit subtends.
central_angle_of(distance) == distance

\* usize::MAX, the largest value of the machine word, in the model's scale:
\* a word of 15 bits.
USIZE_MAX == 32767

\* The steps of a spacing knob in one distance unit, or in one degree unit:
\* a knob is a whole number of steps of 1 / KNOB_STEPS, so that a positive
\* knob can be so small that a quotient by it exceeds usize::MAX.
KNOB_STEPS == USIZE_MAX + 1

\* `as usize` of a non-negative f64: the cast saturates at usize::MAX.
as_usize(x) == IF x > USIZE_MAX THEN USIZE_MAX ELSE x

\* usize::saturating_mul: the product, or usize::MAX if it is larger.
saturating_mul(a, b) == IF a * b > USIZE_MAX THEN USIZE_MAX ELSE a * b

\* usize addition without overflow checks: the sum wraps around the word.
wrapping_add(a, b) == (a + b) % (USIZE_MAX + 1)

\* Iterator::sum::<usize> without overflow checks.
wrapping_sum(s) == SumSeq(s) % (USIZE_MAX + 1)

\* Whether Vec::<Point>::with_capacity(n) panics with "capacity overflow":
\* the n Points of 16 bytes each take more than isize::MAX bytes.
capacity_overflow(n) == n > USIZE_MAX \div 32

\* The process ended by a panic: the call returns no Result.
Aborted == [ok |-> FALSE, error |-> "Aborted"]

\* segment_split_count rounding the quotients down instead of up.
segment_split_count_rounding_down(distance_m, central_angle_rad, options) ==
  LET splits0 == 1
      splits1 ==
        IF IsSome(options.max_segment_length_m)
           /\ Unwrap(options.max_segment_length_m) > 0
        THEN Max(splits0, as_usize((distance_m * KNOB_STEPS)
                                     \div Unwrap(options.max_segment_length_m)))
        ELSE splits0
      central_angle_deg == central_angle_rad * DEGREES_PER_UNIT
      splits2 ==
        IF IsSome(options.max_segment_angle_deg)
           /\ Unwrap(options.max_segment_angle_deg) > 0
        THEN Max(splits1, as_usize((central_angle_deg * KNOB_STEPS)
                                     \div Unwrap(options.max_segment_angle_deg)))
        ELSE splits1
  IN  Max(splits2, 1)

segment_split_count(distance_m, central_angle_rad, options) ==
  LET splits0 == 1
      splits1 ==
        IF IsSome(options.max_segment_length_m)
           /\ Unwrap(options.max_segment_length_m) > 0
        THEN Max(splits0, as_usize(CeilDiv(distance_m * KNOB_STEPS,
                                             Unwrap(options.max_segment_length_m))))
        ELSE splits0
      central_angle_deg == central_angle_rad * DEGREES_PER_UNIT
      splits2 ==
        IF IsSome(options.max_segment_angle_deg)
           /\ Unwrap(options.max_segment_angle_deg) > 0
        THEN Max(splits1, as_usize(CeilDiv(central_angle_deg * KNOB_STEPS,
                                             Unwrap(options.max_segment_angle_deg))))
        ELSE splits1
  IN  Max(splits2, 1)

\* GreatCircleGeometry::describe_segment: None for a zero-length segment.
describe_segment(start, end, options, start_index) ==
  LET distance == geodesic_distance(start, end)
      central_angle_rad == central_angle_of(distance)
  IN  IF distance = 0 THEN None
      ELSE Some([start_index |-> start_index,
                 end_index |-> start_index + 1,
                 split_count |-> segment_split_count(distance, central_angle_rad, options),
                 geometry |-> central_angle_rad])

RECURSIVE build_from(_, _, _)
build_from(vertices, options, index) ==
  IF index + 1 >= Len(vertices) THEN << >>
  ELSE describe_segment(vertices[index + 1], vertices[index + 2], options, index)
         \o build_from(vertices, options, index + 1)

\* build_segments: the descriptors of the segments of non-zero length.
build_segments(vertices, options) == build_from(vertices, options, 0)

\* The point at step / split_count of the way from start to end: spherical
\* linear interpolation in its small-angle form, a = 1 - fraction and
\* b = fraction, rounded down to the grid.
interpolate_point(start, end, step, split_count) ==
  Point((start.lat * (split_count - step) + end.lat * step) \div split_count,
        (start.lon * (split_count - step) + end.lon * step) \div split_count)

\* interpolate_segment emitting the end of the segment alone, whatever the
\* central angle.
interpolate_segment_endpoint_only(start, end, central_angle_rad, split_count) ==
  << end >>

\* GreatCircleGeometry::interpolate_segment: sin_delta is 0 only for a
\* central angle of 0.
interpolate_segment(start, end, central_angle_rad, split_count) ==
  IF central_angle_rad = 0 THEN << end >>
  ELSE [step \in 1..split_count |-> interpolate_point(start, end, step, split_count)]

split_counts(segments) == [i \in 1..Len(segments) |-> segments[i].split_count]

\* densify_segments starting the output at the first vertex of the part
\* instead of the start of the first retained segment.
densify_segments_from_first_vertex(segments, vertices, sample_cap, part_index) ==
  IF segments = << >>
  THEN Ok(IF vertices = << >> THEN << >> ELSE << vertices[1] >>)
  ELSE LET total_samples == wrapping_add(1, wrapping_sum(split_counts(segments)))
       IN  IF total_samples > sample_cap
           THEN SampleCapExceeded(total_samples, sample_cap, part_index)
           ELSE IF \/ capacity_overflow(total_samples)
                   \/ \E i \in 1..Len(segments) :
                        capacity_overflow(segments[i].split_count)
           THEN Aborted
           ELSE Ok(<< vertices[1] >>
                   \o Concat([i \in 1..Len(segments) |->
                        interpolate_segment(vertices[segments[i].start_index + 1],
                                            vertices[segments[i].end_index + 1],
                                            segments[i].geometry,
                                            segments[i].split_count)]))

densify_segments(segments, vertices, sample_cap, part_index) ==
  IF segments = << >>
  THEN Ok(IF vertices = << >> THEN << >> ELSE << vertices[1] >>)
  ELSE LET total_samples == wrapping_add(1, wrapping_sum(split_counts(segments)))
       IN  IF total_samples > sample_cap
           THEN SampleCapExceeded(total_samples, sample_cap, part_index)
           ELSE IF \/ capacity_overflow(total_samples)
                   \/ \E i \in 1..Len(segments) :
                        capacity_overflow(segments[i].split_count)
           THEN Aborted
           ELSE Ok(<< vertices[segments[1].start_index + 1] >>
                   \o Concat([i \in 1..Len(segments) |->
                        interpolate_segment(vertices[segments[i].start_index + 1],
                                            vertices[segments[i].end_index + 1],
                                            segments[i].geometry,
                                            segments[i].split_count)]))

-----------------------------------------------------------------------------
(* densify_polyline and densify_multiline *)

densify_polyline(vertices, options) ==
  IF ~validate(options) THEN MissingDensificationKnob
  ELSE LET deduped == validate_polyline(vertices, None)
       IN  IF ~deduped.ok THEN deduped
           ELSE densify_segments(build_segments(deduped.value, options),
                                 deduped.value, options.sample_cap, None)

FlattenedPolyline(samples, part_offsets) ==
  [samples |-> samples, part_offsets |-> part_offsets]

\* multiline_part checking each part against the cap on its own, without
\* the running total.
multiline_part_without_running_total(st, part, part_index, options) ==
  LET deduped == validate_polyline(part, Some(part_index))
      segments == build_segments(deduped.value, options)
      expected == wrapping_add(1, wrapping_sum(split_counts(segments)))
      predicted_total == wrapping_add(st.total_samples, expected)
      samples == densify_segments(segments, deduped.value, options.sample_cap,
                                  Some(part_index))
  IN  IF ~deduped.ok THEN deduped
      ELSE IF expected > options.sample_cap
      THEN SampleCapExceeded(predicted_total, options.sample_cap, Some(part_index))
      ELSE IF ~samples.ok THEN samples
      ELSE [ok |-> TRUE,
            result |-> st.result \o samples.value,
            offsets |-> Append(st.offsets,
                               st.offsets[Len(st.offsets)] + Len(samples.value)),
            total_samples |-> predicted_total]

\* multiline_part reporting the count of the failing part alone.
multiline_part_reporting_part_count(st, part, part_index, options) ==
  LET deduped == validate_polyline(part, Some(part_index))
      segments == build_segments(deduped.value, options)
      expected == wrapping_add(1, wrapping_sum(split_counts(segments)))
      predicted_total == wrapping_add(st.total_samples, expected)
      samples == densify_segments(segments, deduped.value, options.sample_cap,
                                  Some(part_index))
  IN  IF ~deduped.ok THEN deduped
      ELSE IF predicted_total > options.sample_cap
      THEN SampleCapExceeded(expected, options.sample_cap, Some(part_index))
      ELSE IF ~samples.ok THEN samples
      ELSE [ok |-> TRUE,
            result |-> st.result \o samples.value,
            offsets |-> Append(st.offsets,
                               st.offsets[Len(st.offsets)] + Len(samples.value)),
            total_samples |-> predicted_total]

\* multiline_part pushing the length of the part as its end offset, without
\* the offset the part starts at.
multiline_part_with_relative_offsets(st, part, part_index, options) ==
  LET deduped == validate_polyline(part, Some(part_index))
      segments == build_segments(deduped.value, options)
      expected == wrapping_add(1, wrapping_sum(split_counts(segments)))
      predicted_total == wrapping_add(st.total_samples, expected)
      samples == densify_segments(segments, deduped.value, options.sample_cap,
                                  Some(part_index))
  IN  IF ~deduped.ok THEN deduped
      ELSE IF predicted_total > options.sample_cap
      THEN SampleCapExceeded(predicted_total, options.sample_cap, Some(part_index))
      ELSE IF ~samples.ok THEN samples
      ELSE [ok |-> TRUE,
            result |-> st.result \o samples.value,
            offsets |-> Append(st.offsets, Len(samples.value)),
            total_samples |-> predicted_total]

\* One iteration of the loop of densify_multiline_with_geometry over the
\* loop state st = [ok, result, offsets, total_samples]; a failed iteration
\* yields the error.
multiline_part(st, part, part_index, options) ==
  LET deduped == validate_polyline(part, Some(part_index))
      segments == build_segments(deduped.value, options)
      expected == wrapping_add(1, wrapping_sum(split_counts(segments)))
      predicted_total == wrapping_add(st.total_samples, expected)
      samples == densify_segments(segments, deduped.value, options.sample_cap,
                                  Some(part_index))
  IN  IF ~deduped.ok THEN deduped
      ELSE IF predicted_total > options.sample_cap
      THEN SampleCapExceeded(predicted_total, options.sample_cap, Some(part_index))
      ELSE IF ~samples.ok THEN samples
      ELSE [ok |-> TRUE,
            result |-> st.result \o samples.value,
            offsets |-> Append(st.offsets,
                               st.offsets[Len(st.offsets)] + Len(samples.value)),
            total_samples |-> predicted_total]

RECURSIVE multiline_loop_skipping_failed_parts(_, _, _)
\* multiline_loop going on to the next part after a part that failed.
multiline_loop_skipping_failed_parts(parts, n, options) ==
  IF n = 0
  THEN [ok |-> TRUE, result |-> << >>, offsets |-> << 0 >>, total_samples |-> 0]
  ELSE LET st == multiline_loop_skipping_failed_parts(parts, n - 1, options)
           next == multiline_part(st, parts[n], n - 1, options)
       IN  IF next.ok THEN next ELSE st

RECURSIVE multiline_loop(_, _, _)
\* The loop state after the first n parts, or the error that ended the loop.
multiline_loop(parts, n, options) ==
  IF n = 0
  THEN [ok |-> TRUE, result |-> << >>, offsets |-> << 0 >>, total_samples |-> 0]
  ELSE LET st == multiline_loop(parts, n - 1, options)
       IN  IF ~st.ok THEN st ELSE multiline_part(st, parts[n], n - 1, options)

densify_multiline(parts, options) ==
  IF ~validate(options) THEN MissingDensificationKnob
  ELSE LET st == multiline_loop(parts, Len(parts), options)
       IN  IF ~st.ok THEN st ELSE Ok(FlattenedPolyline(st.result, st.offsets))

-----------------------------------------------------------------------------
(* The additions of the cap check in a build with overflow checks: an      *)
(* addition whose sum exceeds usize::MAX panics instead of wrapping         *)

\* The additions of 1 + sum::<usize>() over the split counts overflow: the
\* terms are non-negative, so one of them does whenever the sum exceeds the
\* word.
count_overflows(segments) ==
  1 + SumSeq(split_counts(segments)) > USIZE_MAX

\* densify_polyline reaches an overflowing addition.
polyline_overflows(vertices, options) ==
  /\ validate(options)
  /\ LET deduped == validate_polyline(vertices, None)
     IN  /\ deduped.ok
         /\ count_overflows(build_segments(deduped.value, options))

\* densify_multiline reaches an overflowing addition: in some part reached
\* by the loop, the part's expected count or the running total plus it.
multiline_overflows(parts, options) ==
  /\ validate(options)
  /\ \E n \in 1..Len(parts) :
       LET st == multiline_loop(parts, n - 1, options)
           deduped == validate_polyline(parts[n], Some(n - 1))
       IN  /\ st.ok
           /\ deduped.ok
           /\ LET segments == build_segments(deduped.value, options)
                  expected == wrapping_add(1, wrapping_sum(split_counts(segments)))
              IN  \/ count_overflows(segments)
                  \/ st.total_samples + expected > USIZE_MAX

\* densify_polyline as built: with overflow checks (the dev profile) the
\* first overflowing addition panics, without them (the release profile)
\* it wraps.
densify_polyline_built(overflow_checks, vertices, options) ==
  IF overflow_checks /\ polyline_overflows(vertices, options) THEN Aborted
  ELSE densify_polyline(vertices, options)

\* densify_multiline as built.
densify_multiline_built(overflow_checks, parts, options) ==
  IF overflow_checks /\ multiline_overflows(parts, options) THEN Aborted
  ELSE densify_multiline(parts, options)

-----------------------------------------------------------------------------
(* Hausdorff evaluation over flattened samples *)

\* The witness tolerance, the unit of distance of the model.
WITNESS_DISTANCE_TOLERANCE_M == 1
MIN_INDEXED_POLYLINE_SIZE == 32
MAX_NAIVE_CROSS_PRODUCT == 4000

PolylineSample(point, part_index, vertex_index) ==
  [point |-> point, part_index |-> part_index, vertex_index |-> vertex_index]

\* enumerate_part numbering the samples by their position in the flattened
\* samples instead of their position within the part.
enumerate_part_with_flat_index(polyline, part_index) ==
  LET start == polyline.part_offsets[part_index + 1]
      end == polyline.part_offsets[part_index + 2]
  IN  [i \in 1..(end - start) |->
         PolylineSample(polyline.samples[start + i], part_index, start + i - 1)]

\* The samples of one part, each with its position within the part.
enumerate_part(polyline, part_index) ==
  LET start == polyline.part_offsets[part_index + 1]
      end == polyline.part_offsets[part_index + 2]
  IN  [i \in 1..(end - start) |->
         PolylineSample(polyline.samples[start + i], part_index, i - 1)]

enumerate_samples(polyline) ==
  Concat([w \in 1..(Len(polyline.part_offsets) - 1) |->
            enumerate_part(polyline, w - 1)])

directed_witness(origin, candidate) ==
  [distance_m |-> geodesic_distance(origin.point, candidate.point),
   source |-> origin,
   target |-> candidate]

prefers_target(current, candidate) ==
  IF candidate.distance_m + WITNESS_DISTANCE_TOLERANCE_M < current.distance_m
  THEN TRUE
  ELSE /\ Abs(candidate.distance_m - current.distance_m)
            <= WITNESS_DISTANCE_TOLERANCE_M
       /\ \/ candidate.target.part_index < current.target.part_index
          \/ /\ candidate.target.part_index = current.target.part_index
             /\ candidate.target.vertex_index < current.target.vertex_index

\* prefers_worse_witness taking every candidate not smaller than the current
\* one by more than the tolerance.
prefers_worse_witness_on_any_tie(current, candidate) ==
  candidate.distance_m + WITNESS_DISTANCE_TOLERANCE_M >= current.distance_m

prefers_worse_witness(current, candidate) ==
  IF candidate.distance_m > current.distance_m + WITNESS_DISTANCE_TOLERANCE_M
  THEN TRUE
  ELSE /\ Abs(candidate.distance_m - current.distance_m)
            <= WITNESS_DISTANCE_TOLERANCE_M
       /\ \/ candidate.source.part_index < current.source.part_index
          \/ /\ candidate.source.part_index = current.source.part_index
             /\ \/ candidate.source.vertex_index < current.source.vertex_index
                \/ /\ candidate.source.vertex_index = current.source.vertex_index
                   /\ \/ candidate.target.part_index < current.target.part_index
                      \/ /\ candidate.target.part_index = current.target.part_index
                         /\ candidate.target.vertex_index
                              < current.target.vertex_index

RECURSIVE nearest_naive(_, _, _)
\* The inner loop of hausdorff_directed_polyline_naive over the first n
\* candidates: None before any candidate, Some(witness) after.
nearest_naive(origin, candidates, n) ==
  IF n = 0 THEN None
  ELSE LET nearest == nearest_naive(origin, candidates, n - 1)
           witness == directed_witness(origin, candidates[n])
       IN  IF nearest = None THEN Some(witness)
           ELSE IF prefers_target(Unwrap(nearest), witness) THEN Some(witness)
           ELSE nearest

\* The update of best with the nearest witness of one origin, in both
\* strategies.
keep_worse(best, nearest_witness) ==
  IF best = None THEN Some(nearest_witness)
  ELSE IF prefers_worse_witness(Unwrap(best), nearest_witness)
  THEN Some(nearest_witness)
  ELSE best

RECURSIVE best_naive(_, _, _)
\* The outer loop of hausdorff_directed_polyline_naive over the first n
\* origins.
best_naive(origins, candidates, n) ==
  IF n = 0 THEN None
  ELSE LET best == best_naive(origins, candidates, n - 1)
           nearest == nearest_naive(origins[n], candidates, Len(candidates))
       IN  IF nearest = None THEN best ELSE keep_worse(best, Unwrap(nearest))

hausdorff_directed_polyline_naive(origins, candidates) ==
  LET best == best_naive(origins, candidates, Len(origins))
  IN  IF best = None THEN EmptyPointSet ELSE Ok(Unwrap(best))

\* IndexedPolylinePoint::distance_2: the square of the geodesic distance.
distance_2(sample, query) ==
  LET meters == geodesic_distance(sample.point, query)
  IN  meters * meters

\* The orders in which RTree::nearest_neighbor_iter may yield the
\* candidates for a query: every order of all the candidates that is
\* non-decreasing in distance_2, candidates at equal distance_2 in any order.
\* An order is a sequence of positions in candidates.
nearest_neighbor_orders(candidates, query) ==
  {order \in [1..Len(candidates) -> 1..Len(candidates)] :
     /\ \A i, j \in 1..Len(candidates) : i # j => order[i] # order[j]
     /\ \A i \in 1..(Len(candidates) - 1) :
          distance_2(candidates[order[i]], query)
            <= distance_2(candidates[order[i + 1]], query)}

RECURSIVE nearest_indexed(_, _, _, _)
\* The loop of hausdorff_directed_polyline_indexed over the candidates the
\* iterator yields after the first, up to the n-th: the record of the
\* nearest witness and whether the loop has left with break.
nearest_indexed(origin, candidates, order, n) ==
  IF n = 1
  THEN [nearest |-> directed_witness(origin, candidates[order[1]]),
        broken |-> FALSE]
  ELSE LET before == nearest_indexed(origin, candidates, order, n - 1)
           nearest == before.nearest
           witness == directed_witness(origin, candidates[order[n]])
       IN  IF before.broken THEN before
           ELSE IF witness.distance_m + WITNESS_DISTANCE_TOLERANCE_M
                     < nearest.distance_m
           THEN [nearest |-> witness, broken |-> FALSE]
           ELSE IF Abs(witness.distance_m - nearest.distance_m)
                     <= WITNESS_DISTANCE_TOLERANCE_M
           THEN [nearest |-> IF prefers_target(nearest, witness)
                             THEN witness ELSE nearest,
                 broken |-> FALSE]
           ELSE IF witness.distance_m
                     > nearest.distance_m + WITNESS_DISTANCE_TOLERANCE_M
           THEN [nearest |-> nearest, broken |-> TRUE]
           ELSE before

RECURSIVE best_indexed(_, _, _, _)
\* The outer loop of hausdorff_directed_polyline_indexed over the first n
\* origins; orders[i] is the order the iterator yields for origins[i].
best_indexed(origins, candidates, orders, n) ==
  IF n = 0 THEN None
  ELSE LET best == best_indexed(origins, candidates, orders, n - 1)
           nearest == nearest_indexed(origins[n], candidates, orders[n],
                                      Len(candidates)).nearest
       IN  keep_worse(best, nearest)

hausdorff_directed_polyline_indexed(origins, candidates, orders) ==
  IF origins # << >> /\ candidates = << >> THEN EmptyPointSet
  ELSE LET best == best_indexed(origins, candidates, orders, Len(origins))
       IN  IF best = None THEN EmptyPointSet ELSE Ok(Unwrap(best))

Min(a, b) == IF a <= b THEN a ELSE b

\* should_use_naive with a cross product that has to stay below the limit.
should_use_naive_below_cross_product(a_len, b_len) ==
  LET min_size == Min(a_len, b_len)
      cross_product == saturating_mul(a_len, b_len)
  IN  min_size < MIN_INDEXED_POLYLINE_SIZE \/ cross_product < MAX_NAIVE_CROSS_PRODUCT

\* should_use_naive comparing the size of the first set alone with the
\* minimum size of the indexed strategy.
should_use_naive_by_first_size(a_len, b_len) ==
  LET cross_product == saturating_mul(a_len, b_len)
  IN  a_len < MIN_INDEXED_POLYLINE_SIZE \/ cross_product <= MAX_NAIVE_CROSS_PRODUCT

should_use_naive(a_len, b_len) ==
  LET min_size == Min(a_len, b_len)
      cross_product == saturating_mul(a_len, b_len)
  IN  min_size < MIN_INDEXED_POLYLINE_SIZE \/ cross_product <= MAX_NAIVE_CROSS_PRODUCT

choose_strategy(a_len, b_len) ==
  IF should_use_naive(a_len, b_len) THEN "Naive" ELSE "Indexed"

hausdorff_directed_polyline(origins, candidates, orders) ==
  IF origins = << >> \/ candidates = << >> THEN EmptyPointSet
  ELSE IF choose_strategy(Len(origins), Len(candidates)) = "Naive"
  THEN hausdorff_directed_polyline_naive(origins, candidates)
  ELSE hausdorff_directed_polyline_indexed(origins, candidates, orders)

\* pick_symmetric_witness without the tolerance: the larger distance wins.
pick_symmetric_witness_by_larger_distance(a_to_b, b_to_a) ==
  IF a_to_b.distance_m >= b_to_a.distance_m THEN a_to_b ELSE b_to_a

pick_symmetric_witness(a_to_b, b_to_a) ==
  LET diff == Abs(a_to_b.distance_m - b_to_a.distance_m)
  IN  IF diff <= WITNESS_DISTANCE_TOLERANCE_M THEN a_to_b
      ELSE IF a_to_b.distance_m > b_to_a.distance_m THEN a_to_b
      ELSE b_to_a

map_directed_witness(witness) ==
  [distance |-> witness.distance_m,
   source_part |-> witness.source.part_index,
   source_index |-> witness.source.vertex_index,
   target_part |-> witness.target.part_index,
   target_index |-> witness.target.vertex_index,
   source_coord |-> witness.source.point,
   target_coord |-> witness.target.point]

BoundingBox(min_lat, max_lat, min_lon, max_lon) ==
  [min_lat |-> min_lat, max_lat |-> max_lat,
   min_lon |-> min_lon, max_lon |-> max_lon]

\* BoundingBox::contains: the box is inclusive on every side.
contains(bounding_box, point) ==
  /\ bounding_box.min_lat <= point.lat /\ point.lat <= bounding_box.max_lat
  /\ bounding_box.min_lon <= point.lon /\ point.lon <= bounding_box.max_lon

RECURSIVE clip_loop_dropping_empty_parts(_, _, _)
\* clip_loop pushing no offset for a part that keeps no sample.
clip_loop_dropping_empty_parts(polyline, bounding_box, n) ==
  IF n = 0 THEN [filtered |-> << >>, offsets |-> << 0 >>]
  ELSE LET before == clip_loop_dropping_empty_parts(polyline, bounding_box, n - 1)
           start == polyline.part_offsets[n]
           end == polyline.part_offsets[n + 1]
           part_slice == SubSeq(polyline.samples, start + 1, end)
           kept == SelectSeq(part_slice, LAMBDA point : contains(bounding_box, point))
       IN  IF kept = << >> THEN before
           ELSE [filtered |-> before.filtered \o kept,
                 offsets |-> Append(before.offsets, Len(before.filtered) + Len(kept))]

RECURSIVE clip_loop_pushing_offset_before_count(_, _, _)
\* clip_loop pushing the running total before the samples kept of the part
\* are counted.
clip_loop_pushing_offset_before_count(polyline, bounding_box, n) ==
  IF n = 0 THEN [filtered |-> << >>, offsets |-> << 0 >>]
  ELSE LET before == clip_loop_pushing_offset_before_count(polyline, bounding_box, n - 1)
           start == polyline.part_offsets[n]
           end == polyline.part_offsets[n + 1]
           part_slice == SubSeq(polyline.samples, start + 1, end)
           kept == SelectSeq(part_slice, LAMBDA point : contains(bounding_box, point))
       IN  [filtered |-> before.filtered \o kept,
            offsets |-> Append(before.offsets, Len(before.filtered))]

RECURSIVE clip_loop(_, _, _)
\* The loop of FlattenedPolyline::clip over the first n parts: the samples
\* kept and the offsets pushed so far.
clip_loop(polyline, bounding_box, n) ==
  IF n = 0 THEN [filtered |-> << >>, offsets |-> << 0 >>]
  ELSE LET before == clip_loop(polyline, bounding_box, n - 1)
           start == polyline.part_offsets[n]
           end == polyline.part_offsets[n + 1]
           part_slice == SubSeq(polyline.samples, start + 1, end)
           kept == SelectSeq(part_slice, LAMBDA point : contains(bounding_box, point))
       IN  [filtered |-> before.filtered \o kept,
            offsets |-> Append(before.offsets, Len(before.filtered) + Len(kept))]

clip(polyline, bounding_box) ==
  LET st == clip_loop(polyline, bounding_box, Len(polyline.part_offsets) - 1)
  IN  IF st.filtered = << >> THEN EmptyPointSet
      ELSE Ok(FlattenedPolyline(st.filtered, st.offsets))

\* clip_if_needed falling back to the unclipped samples when the box keeps
\* none.
clip_if_needed_keeping_input_when_empty(polyline, bounding_box) ==
  IF IsSome(bounding_box) /\ clip(polyline, Unwrap(bounding_box)).ok
  THEN clip(polyline, Unwrap(bounding_box))
  ELSE Ok(polyline)

clip_if_needed(polyline, bounding_box) ==
  IF IsSome(bounding_box) THEN clip(polyline, Unwrap(bounding_box))
  ELSE Ok(polyline)

PolylineHausdorffOptions(symmetric, bounding_box, return_witness, max_segment_length_m, max_segment_angle_deg, sample_cap) ==
  [symmetric |-> symmetric, bounding_box |-> bounding_box,
   return_witness |-> return_witness,
   max_segment_length_m |-> max_segment_length_m,
   max_segment_angle_deg |-> max_segment_angle_deg,
   sample_cap |-> sample_cap]

densification_options(options) ==
  DensificationOptions(options.max_segment_length_m,
                       options.max_segment_angle_deg, options.sample_cap)

PolylineHausdorffResult(dominant, options) ==
  [distance |-> dominant.distance_m,
   witness |-> IF options.return_witness
               THEN Some(map_directed_witness(dominant)) ELSE None]

\* The end of hausdorff_polyline, the two directed evaluations made: the
\* reverse one is consulted in symmetric mode alone.
dominant_result(forward, reverse, options) ==
  IF ~forward.ok THEN forward
  ELSE IF ~options.symmetric
  THEN Ok(PolylineHausdorffResult(forward.value, options))
  ELSE IF ~reverse.ok THEN reverse
  ELSE Ok(PolylineHausdorffResult(
            pick_symmetric_witness(forward.value, reverse.value), options))

\* hausdorff_polyline from the enumeration of the samples on;
\* forward_orders and reverse_orders are the orders the index yields in the
\* two directed evaluations, consulted by the indexed strategy alone.
hausdorff_polyline_evaluation(enumerated_a, enumerated_b, options, forward_orders, reverse_orders) ==
  dominant_result(
    hausdorff_directed_polyline(enumerated_a, enumerated_b, forward_orders),
    hausdorff_directed_polyline(enumerated_b, enumerated_a, reverse_orders),
    options)

\* The start of hausdorff_polyline, the two clip_if_needed made: the
\* enumerated samples of both inputs.
enumerated_if_clipped(clipped_a, clipped_b) ==
  IF ~clipped_a.ok THEN clipped_a
  ELSE IF ~clipped_b.ok THEN clipped_b
  ELSE Ok([enumerated_a |-> enumerate_samples(clipped_a.value),
           enumerated_b |-> enumerate_samples(clipped_b.value)])

\* The start of hausdorff_polyline, the two densify_multiline made.
enumerated_if_densified(samples_a, samples_b, options) ==
  IF ~samples_a.ok THEN samples_a
  ELSE IF ~samples_b.ok THEN samples_b
  ELSE enumerated_if_clipped(
         clip_if_needed(samples_a.value, options.bounding_box),
         clip_if_needed(samples_b.value, options.bounding_box))

\* hausdorff_polyline up to the enumeration of the samples: the first error
\* of densification and clipping, or the enumerated samples of both inputs.
hausdorff_polyline_samples(polyline_a, polyline_b, options) ==
  enumerated_if_densified(
    densify_multiline(polyline_a, densification_options(options)),
    densify_multiline(polyline_b, densification_options(options)), options)

-----------------------------------------------------------------------------
(* The calls of the densification API *)

\* Input vertices: the points of the equator at whole distance units from
\* (0, 0), two grid steps each, and the point one grid step from (0, 0), at
\* geodesic distance 0 from it.
ValidVertices == {Point(0, 2 * k) : k \in 0..MaxCoord} \cup {Point(0, 1)}

\* The vertices of multi-part inputs.
PartVertices == {Point(0, 2 * k) : k \in 0..MaxPartCoord} \cup {Point(0, 1)}

\* With one vertex of a latitude out of range.
Vertices == ValidVertices \cup {Point(MAX_LAT_DEGREES + 1, 0)}

SeqsUpTo(S, n) == UNION {[1..k -> S] : k \in 0..n}

SeqsOfLen(S, n) == [1..n -> S]

RECURSIVE PartLists(_)
\* The multi-part inputs of at most budget vertices in all, every part of
\* two or more valid vertices.
PartLists(budget) ==
  {<< >>} \cup
  UNION {{<< part >> \o rest : part \in SeqsOfLen(PartVertices, n),
                               rest \in PartLists(budget - n)} : n \in 2..budget}

\* The spacing knobs: unset, or a length in distance units, an angle in
\* degree units.
Knobs == {None, Some(KNOB_STEPS), Some(2 * KNOB_STEPS)}

\* The angle knobs: one of them does not divide the angle of every segment.
AngleKnobs == {None, Some(KNOB_STEPS), Some(3 * KNOB_STEPS)}

OptionChoices ==
  {DensificationOptions(l, a, c) : l \in Knobs, a \in AngleKnobs, c \in 1..MaxCap}

Init ==
  /\ pc = "idle"
  /\ call = [fn |-> "none"]
  /\ result = None

\* densify_polyline(vertices, options)
DensifyPolyline ==
  /\ pc = "idle"
  /\ \E vertices \in SeqsUpTo(Vertices, MaxVerts), options \in OptionChoices :
       /\ call' = [fn |-> "densify_polyline", vertices |-> vertices,
                   options |-> options]
       /\ result' = densify_polyline(vertices, options)
  /\ pc' = "returned"

\* densify_multiline(parts, options)
DensifyMultiline ==
  /\ pc = "idle"
  /\ \E parts \in PartLists(MaxTotalVerts), options \in OptionChoices :
       /\ call' = [fn |-> "densify_multiline", parts |-> parts,
                   options |-> options]
       /\ result' = densify_multiline(parts, options)
  /\ pc' = "returned"

\* The caller takes the result; the library keeps nothing between calls.
Return ==
  /\ pc = "returned"
  /\ pc' = "idle"
  /\ call' = [fn |-> "none"]
  /\ result' = None

NextDensify == DensifyPolyline \/ DensifyMultiline \/ Return

SpecDensify == Init /\ [][NextDensify]_vars

-----------------------------------------------------------------------------
(* The calls of the densification API on unchecked input: vertices out of  *)
(* range or not finite on either axis, parts of any length, knobs that are *)
(* set without being positive                                              *)

\* Vertices that fail validation: a latitude above or below the range, a
\* longitude above or below it, a coordinate that is not finite, and
\* vertices with both axes at fault.
InvalidVertices ==
  {Point(MAX_LAT_DEGREES + 1, 0), Point(MIN_LAT_DEGREES - 1, MAX_LON_DEGREES + 1),
   Point(0, MAX_LON_DEGREES + 1), Point(0, MIN_LON_DEGREES - 1),
   Point(NaN, 0), Point(0, NaN)}

UncheckedVertices == {Point(0, 0), Point(0, 1), Point(0, 4)} \cup InvalidVertices

\* The vertices of unchecked multi-part inputs.
UncheckedPartVertices ==
  {Point(0, 0), Point(0, 4), Point(MAX_LAT_DEGREES + 1, 0), Point(0, MIN_LON_DEGREES - 1)}

\* The multi-part inputs of at most two parts and at most budget vertices
\* in all, a part being any sequence of vertices.
UncheckedPartLists(budget) ==
  {<< >>}
  \cup {<< part >> : part \in SeqsUpTo(UncheckedPartVertices, budget)}
  \cup UNION {{<< first, second >> :
                  second \in SeqsUpTo(UncheckedPartVertices, budget - Len(first))} :
               first \in SeqsUpTo(UncheckedPartVertices, budget)}

\* The knobs of unchecked options: unset, set to zero, set and positive.
UncheckedKnobs == {None, Some(0), Some(KNOB_STEPS)}

UncheckedOptionChoices ==
  {DensificationOptions(l, a, MaxCap) : l \in UncheckedKnobs, a \in {None, Some(0)}}

\* densify_polyline(vertices, options) on unchecked input
DensifyPolylineUnchecked ==
  /\ pc = "idle"
  /\ \E vertices \in SeqsUpTo(UncheckedVertices, MaxUncheckedVerts),
        options \in UncheckedOptionChoices :
       /\ call' = [fn |-> "densify_polyline", vertices |-> vertices,
                   options |-> options]
       /\ result' = densify_polyline(vertices, options)
  /\ pc' = "returned"

\* densify_multiline(parts, options) on unchecked input
DensifyMultilineUnchecked ==
  /\ pc = "idle"
  /\ \E parts \in UncheckedPartLists(MaxUncheckedTotalVerts),
        options \in UncheckedOptionChoices :
       /\ call' = [fn |-> "densify_multiline", parts |-> parts,
                   options |-> options]
       /\ result' = densify_multiline(parts, options)
  /\ pc' = "returned"

NextValidation == DensifyPolylineUnchecked \/ DensifyMultilineUnchecked \/ Return

SpecValidation == Init /\ [][NextValidation]_vars

-----------------------------------------------------------------------------
(* The calls of the densification API with spacing knobs down to the       *)
(* smallest positive value and caps up to usize::MAX, in a build with or   *)
(* without overflow checks                                                 *)

\* Vertices one or two distance units apart.
WordVertices == {Point(0, 0), Point(0, 2), Point(0, 6)}

\* The multi-part inputs of one or two parts of two or three vertices.
WordPartLists ==
  LET Parts == SeqsOfLen(WordVertices, 2)
               \cup {<< Point(0, 0), Point(0, 2), Point(0, 6) >>}
  IN  {<< part >> : part \in Parts}
      \cup {<< first, second >> : first \in Parts, second \in Parts}

\* A length knob that is unset, of one step (the smallest positive one), of
\* two steps, or of a whole distance unit.
WordKnobs ==
  {None, Some(1), Some(2), Some(KNOB_STEPS)}

\* Caps from 1 up to usize::MAX.
WordCaps == {1, 3, MaxCap, USIZE_MAX}

WordOptionChoices ==
  {DensificationOptions(l, None, c) : l \in WordKnobs, c \in WordCaps}

\* densify_polyline(vertices, options) in either build
DensifyPolylineBuilt ==
  /\ pc = "idle"
  /\ \E vertices \in SeqsUpTo(WordVertices, MaxWordVerts),
        options \in WordOptionChoices, overflow_checks \in BOOLEAN :
       /\ call' = [fn |-> "densify_polyline", vertices |-> vertices,
                   options |-> options, overflow_checks |-> overflow_checks]
       /\ result' = densify_polyline_built(overflow_checks, vertices, options)
  /\ pc' = "returned"

\* densify_multiline(parts, options) in either build
DensifyMultilineBuilt ==
  /\ pc = "idle"
  /\ \E parts \in WordPartLists,
        options \in WordOptionChoices, overflow_checks \in BOOLEAN :
       /\ call' = [fn |-> "densify_multiline", parts |-> parts,
                   options |-> options, overflow_checks |-> overflow_checks]
       /\ result' = densify_multiline_built(overflow_checks, parts, options)
  /\ pc' = "returned"

NextOverflow == DensifyPolylineBuilt \/ DensifyMultilineBuilt \/ Return

SpecOverflow == Init /\ [][NextOverflow]_vars

-----------------------------------------------------------------------------
(* The directed evaluations over enumerated samples *)

\* Sample points: the points of the equator at whole distance units from
\* (0, 0).
SamplePoints == {Point(0, 2 * k) : k \in 0..MaxSampleCoord}

\* The part offsets of n samples: all in one part, all in the second part
\* after an empty one (as clipping leaves it), or the first alone in the
\* first part.
PartOffsetsOf(n) == {<<0, n>>, <<0, 0, n>>, <<0, 1, n>>}

\* The flattened polylines of n samples.
Flattened(n) ==
  {FlattenedPolyline(samples, part_offsets) :
     samples \in SeqsOfLen(SamplePoints, n), part_offsets \in PartOffsetsOf(n)}

\* The pairs of non-empty sample sets a directed evaluation receives: two
\* polylines of at most MaxSamples samples together, or one polyline
\* against itself, of at most MaxSamples + 2 samples on both sides together.
SamplePairs ==
  UNION {UNION {Flattened(n) \X Flattened(m) : m \in 1..(MaxSamples - n)} :
           n \in 1..(MaxSamples - 1)}
  \cup UNION {{<<a, a>> : a \in Flattened(n)} :
                n \in 1..((MaxSamples + 2) \div 2)}

RECURSIVE OrderChoices(_, _, _)
\* One order of the iterator for each of the first n origins.
OrderChoices(origins, candidates, n) ==
  IF n = 0 THEN {<< >>}
  ELSE {Append(rest, order) :
          rest \in OrderChoices(origins, candidates, n - 1),
          order \in nearest_neighbor_orders(candidates, origins[n].point)}

\* hausdorff_directed_polyline_naive(origins, candidates)
DirectedNaive ==
  /\ pc = "idle"
  /\ \E pair \in SamplePairs :
       LET origins == enumerate_samples(pair[1])
           candidates == enumerate_samples(pair[2])
       IN  /\ call' = [fn |-> "hausdorff_directed_polyline_naive",
                       origins |-> origins, candidates |-> candidates]
           /\ result' = hausdorff_directed_polyline_naive(origins, candidates)
  /\ pc' = "returned"

\* hausdorff_directed_polyline_indexed(origins, candidates)
DirectedIndexed ==
  /\ pc = "idle"
  /\ \E pair \in SamplePairs :
       LET origins == enumerate_samples(pair[1])
           candidates == enumerate_samples(pair[2])
       IN  \E orders \in OrderChoices(origins, candidates, Len(origins)) :
             /\ call' = [fn |-> "hausdorff_directed_polyline_indexed",
                         origins |-> origins, candidates |-> candidates,
                         orders |-> orders]
             /\ result' = hausdorff_directed_polyline_indexed(origins, candidates,
                                                              orders)
  /\ pc' = "returned"

NextDirected == DirectedNaive \/ DirectedIndexed \/ Return

SpecDirected == Init /\ [][NextDirected]_vars

-----------------------------------------------------------------------------
(* The calls of hausdorff_polyline *)

\* Vertices of the inputs of hausdorff_polyline: points of the equator two
\* distance units apart, and the point one grid step from (0, 0).
HausdorffVertices ==
  {Point(0, 4 * k) : k \in 0..MaxHausdorffCoord} \cup {Point(0, 1)}

HausdorffParts == SeqsOfLen(HausdorffVertices, 2)

\* The second parts of polyline_a.
SecondParts == SeqsOfLen({Point(0, 0), Point(0, 4)}, 2)

\* polyline_a: no part, one part or two parts.
PolylinesA ==
  {<< >>} \cup {<< p >> : p \in HausdorffParts}
          \cup {<< p, q >> : p \in HausdorffParts, q \in SecondParts}

\* polyline_b: no part or one part.
PolylinesB == {<< >>} \cup {<< p >> : p \in HausdorffParts}

\* No box, or the box of the longitudes up to one distance unit.
BoundingBoxes == {None, Some(BoundingBox(0, 0, 0, 2))}

HausdorffOptionChoices ==
  {PolylineHausdorffOptions(symmetric, bounding_box, return_witness, l, None,
                            2 * MaxCap) :
     symmetric \in BOOLEAN, bounding_box \in BoundingBoxes,
     return_witness \in BOOLEAN, l \in Knobs}

\* The orders the index may yield in one directed evaluation, if it is the
\* indexed strategy that evaluates it.
IndexOrders(origins, candidates) ==
  IF /\ origins # << >>
     /\ candidates # << >>
     /\ choose_strategy(Len(origins), Len(candidates)) = "Indexed"
  THEN OrderChoices(origins, candidates, Len(origins))
  ELSE {<< >>}

\* hausdorff_polyline(polyline_a, polyline_b, options), up to the
\* enumeration of the samples: the call returns the first error of
\* densification and clipping, or goes on to the directed evaluations.
HausdorffPolyline ==
  /\ pc = "idle"
  /\ \E polyline_a \in PolylinesA, polyline_b \in PolylinesB,
        options \in HausdorffOptionChoices :
       LET enumerated == hausdorff_polyline_samples(polyline_a, polyline_b, options)
       IN  /\ call' = [fn |-> "hausdorff_polyline", polyline_a |-> polyline_a,
                       polyline_b |-> polyline_b, options |-> options,
                       enumerated_a |-> IF enumerated.ok
                                        THEN enumerated.value.enumerated_a
                                        ELSE << >>,
                       enumerated_b |-> IF enumerated.ok
                                        THEN enumerated.value.enumerated_b
                                        ELSE << >>]
           /\ IF enumerated.ok
              THEN pc' = "evaluating" /\ result' = None
              ELSE pc' = "returned" /\ result' = enumerated

\* The rest of hausdorff_polyline: the directed evaluations of the
\* enumerated samples, the index yielding its candidates in one of the
\* orders it may.
HausdorffEvaluate ==
  /\ pc = "evaluating"
  /\ \E forward_orders \in IndexOrders(call.enumerated_a, call.enumerated_b),
        reverse_orders \in IndexOrders(call.enumerated_b, call.enumerated_a) :
       result' = hausdorff_polyline_evaluation(call.enumerated_a,
                                               call.enumerated_b, call.options,
                                               forward_orders, reverse_orders)
  /\ pc' = "returned"
  /\ UNCHANGED call

NextHausdorff == HausdorffPolyline \/ HausdorffEvaluate \/ Return

SpecHausdorff == Init /\ [][NextHausdorff]_vars

-----------------------------------------------------------------------------
(* The calls of FlattenedPolyline::clip *)

ClipPoints == {Point(0, 0), Point(0, 2), Point(0, 3), Point(1, 0)}

\* The part offsets densify_multiline returns for n samples: every part has
\* a sample, and there is no part without samples.
DensifiedOffsets(n) ==
  IF n = 0 THEN {<< 0 >>}
  ELSE UNION {{offsets \in [1..(parts + 1) -> 0..n] :
                 /\ offsets[1] = 0
                 /\ offsets[parts + 1] = n
                 /\ \A i \in 1..parts : offsets[i] < offsets[i + 1]} :
              parts \in 1..n}

\* The values of FlattenedPolyline that densify_multiline returns.
DensifiedPolylines ==
  UNION {{FlattenedPolyline(samples, part_offsets) :
            samples \in SeqsOfLen(ClipPoints, n),
            part_offsets \in DensifiedOffsets(n)} : n \in 0..MaxClipSamples}

\* The box of latitude 0 up to longitude 2, the box of longitude 0, and a
\* box around every point.
ClipBoxes ==
  {BoundingBox(0, 0, 0, 2), BoundingBox(0, 1, 0, 0), BoundingBox(0, 1, 0, 3)}

\* polyline.clip(bounding_box) on the value of a densification
Clip ==
  /\ pc = "idle"
  /\ \E polyline \in DensifiedPolylines, bounding_box \in ClipBoxes :
       /\ call' = [fn |-> "clip", polyline |-> polyline,
                   bounding_box |-> bounding_box, clipped_by |-> None]
       /\ result' = clip(polyline, bounding_box)
  /\ pc' = "returned"

\* clipped.clip(bounding_box) on the value a clip has returned; clipped_by
\* remembers the box of that clip.
ClipAgain ==
  /\ pc = "returned"
  /\ call.fn = "clip"
  /\ call.clipped_by = None
  /\ result.ok
  /\ \E bounding_box \in ClipBoxes :
       /\ call' = [fn |-> "clip", polyline |-> result.value,
                   bounding_box |-> bounding_box,
                   clipped_by |-> Some(call.bounding_box)]
       /\ result' = clip(result.value, bounding_box)
  /\ pc' = "returned"

NextClip == Clip \/ ClipAgain \/ Return

SpecClip == Init /\ [][NextClip]_vars

-----------------------------------------------------------------------------
(* The calls of the strategy selector *)

\* The sizes of the two sets: the small ones, and two so large that their
\* product exceeds usize::MAX.
StrategySizes ==
  (1..MaxStrategySize) \cup {USIZE_MAX \div 2 + 1, USIZE_MAX}

\* choose_strategy(a_len, b_len): hausdorff_directed_polyline calls it with
\* the sizes of two sets that are not empty.
ChooseStrategy ==
  /\ pc = "idle"
  /\ \E a_len \in StrategySizes, b_len \in StrategySizes :
       /\ call' = [fn |-> "choose_strategy", a_len |-> a_len, b_len |-> b_len]
       /\ result' = choose_strategy(a_len, b_len)
  /\ pc' = "returned"

NextStrategy == ChooseStrategy \/ Return

SpecStrategy == Init /\ [][NextStrategy]_vars

-----------------------------------------------------------------------------
(* Properties of densification *)

Returned(fn) == pc = "returned" /\ call.fn = fn

\* 1 + the sum of the split counts of the retained segments of a part.
ProjectedCount(vertices, options) ==
  1 + SumSeq(split_counts(build_segments(collapse_duplicates(vertices), options)))

\* The projected count of parts[1..n] together.
RECURSIVE CumulativeCount(_, _, _)
CumulativeCount(parts, n, options) ==
  IF n = 0 THEN 0
  ELSE CumulativeCount(parts, n - 1, options) + ProjectedCount(parts[n], options)

\* Every vertex of parts[1..n] is valid and no part is degenerate.
PartsValid(parts, n) ==
  \A i \in 1..n : validate_polyline(parts[i], None).ok

\* C4: with a sample cap C >= 1 (the options' sample_cap is a positive
\* integer), a successful densify_polyline or densify_multiline returns at
\* most C samples, and a call that passes validation and whose projected
\* count, 1 + the sum of the split counts, summed over the parts, exceeds C
\* fails with SampleCapExceeded.
C4_SampleCapBoundsOutput ==
  /\ Returned("densify_polyline") =>
       /\ result.ok => Len(result.value) <= call.options.sample_cap
       /\ ( /\ validate(call.options)
            /\ validate_polyline(call.vertices, None).ok
            /\ ProjectedCount(call.vertices, call.options) > call.options.sample_cap )
          => (~result.ok /\ result.error = "SampleCapExceeded")
  /\ Returned("densify_multiline") =>
       /\ result.ok => Len(result.value.samples) <= call.options.sample_cap
       /\ ( /\ validate(call.options)
            /\ PartsValid(call.parts, Len(call.parts))
            /\ CumulativeCount(call.parts, Len(call.parts), call.options)
                 > call.options.sample_cap )
          => (~result.ok /\ result.error = "SampleCapExceeded")

\* Two parts, each within the cap, whose projected counts together exceed
\* it, were refused.
C4_Witness ==
  /\ Returned("densify_multiline")
  /\ Len(call.parts) = 2
  /\ validate(call.options)
  /\ PartsValid(call.parts, 2)
  /\ ProjectedCount(call.parts[1], call.options) <= call.options.sample_cap
  /\ ProjectedCount(call.parts[2], call.options) <= call.options.sample_cap
  /\ CumulativeCount(call.parts, 2, call.options) > call.options.sample_cap
  /\ ~result.ok

\* Part k (0-based) is the first whose cumulative projected count exceeds
\* the cap, parts 0..k being valid.
FirstOverCap(parts, k, options) ==
  /\ PartsValid(parts, k + 1)
  /\ CumulativeCount(parts, k + 1, options) > options.sample_cap
  /\ \A j \in 1..k : CumulativeCount(parts, j, options) <= options.sample_cap

\* C5: densify_multiline fails with SampleCapExceeded carrying part_index k
\* exactly when k is the smallest part index for which the projected counts
\* of parts 0..k together exceed sample_cap; expected is that cumulative sum
\* and cap is the configured cap.
C5_CapFailureNamesFirstPartOver ==
  (Returned("densify_multiline") /\ validate(call.options)) =>
    /\ \A k \in 0..(Len(call.parts) - 1) :
         FirstOverCap(call.parts, k, call.options) =>
           result = SampleCapExceeded(
                      CumulativeCount(call.parts, k + 1, call.options),
                      call.options.sample_cap, Some(k))
    /\ (~result.ok /\ result.error = "SampleCapExceeded") =>
         \E k \in 0..(Len(call.parts) - 1) :
           /\ result.part_index = Some(k)
           /\ FirstOverCap(call.parts, k, call.options)

\* The second part pushed the running total over the cap.
C5_Witness ==
  /\ Returned("densify_multiline")
  /\ ~result.ok
  /\ result.error = "SampleCapExceeded"
  /\ result.part_index = Some(1)
  /\ result.expected > ProjectedCount(call.parts[2], call.options)

\* samples[from .. to), 0-based.
Slice(samples, from, to) == SubSeq(samples, from + 1, to)

\* The samples of part i (1-based) of a flattened polyline.
PartSamples(polyline, i) ==
  Slice(polyline.samples, polyline.part_offsets[i], polyline.part_offsets[i + 1])

\* C6: a FlattenedPolyline returned by densify_multiline has one offset
\* more than there are parts, part_offsets[0] = 0, part_offsets is
\* non-decreasing, its last entry is the number of samples, and the samples
\* between two consecutive offsets are the densified samples of that part.
C6_OffsetsDelimitParts ==
  (Returned("densify_multiline") /\ result.ok) =>
    LET samples == result.value.samples
        part_offsets == result.value.part_offsets
    IN  /\ Len(part_offsets) = Len(call.parts) + 1
        /\ part_offsets[1] = 0
        /\ \A i \in 1..Len(call.parts) : part_offsets[i] <= part_offsets[i + 1]
        /\ part_offsets[Len(part_offsets)] = Len(samples)
        /\ \A i \in 1..Len(call.parts) :
             Ok(Slice(samples, part_offsets[i], part_offsets[i + 1]))
               = densify_polyline(call.parts[i], call.options)

\* Two parts were flattened, the second starting after the first.
C6_Witness ==
  /\ Returned("densify_multiline")
  /\ result.ok
  /\ Len(call.parts) = 2
  /\ result.value.part_offsets[2] > 0
  /\ result.value.part_offsets[3] > result.value.part_offsets[2]

\* The parts of a successful call: the de-duplicated vertices of each part
\* with the samples returned for it.
DensifiedParts ==
  IF Returned("densify_polyline") /\ result.ok
  THEN << [deduped |-> collapse_duplicates(call.vertices),
           samples |-> result.value] >>
  ELSE IF Returned("densify_multiline") /\ result.ok
  THEN [i \in 1..Len(call.parts) |->
          [deduped |-> collapse_duplicates(call.parts[i]),
           samples |-> Slice(result.value.samples,
                             result.value.part_offsets[i],
                             result.value.part_offsets[i + 1])]]
  ELSE << >>

\* The positions i of the segments (deduped[i], deduped[i + 1]) of non-zero
\* geodesic length, in order.
RetainedSegments(deduped) ==
  LET NonZero(i) == geodesic_distance(deduped[i], deduped[i + 1]) # 0
  IN  SelectSeq([i \in 1..(Len(deduped) - 1) |-> i], NonZero)

\* The split count of the segment at position i.
SplitsAt(deduped, i, options) ==
  LET distance == geodesic_distance(deduped[i], deduped[i + 1])
  IN  segment_split_count(distance, central_angle_of(distance), options)

RECURSIVE EndPosition(_, _, _, _)
\* The position, among the samples of a part, of the last sample of its
\* k-th retained segment.
EndPosition(deduped, retained, k, options) ==
  IF k = 0 THEN 1
  ELSE EndPosition(deduped, retained, k - 1, options)
         + SplitsAt(deduped, retained[k], options)

\* Every retained segment ends, in order, with its end vertex, and the
\* samples of a segment do not come closer to its start again.
ForwardSegmentOrder(part, options) ==
  LET retained == RetainedSegments(part.deduped)
  IN  \A k \in 1..Len(retained) :
        LET from == EndPosition(part.deduped, retained, k - 1, options)
            to == EndPosition(part.deduped, retained, k, options)
            start == part.deduped[retained[k]]
        IN  /\ to <= Len(part.samples)
            /\ part.samples[to] = part.deduped[retained[k] + 1]
            /\ \A i \in (from + 1)..(to - 1) :
                 geodesic_distance(start, part.samples[i])
                   <= geodesic_distance(start, part.samples[i + 1])

Configured(knob) == IsSome(knob) /\ Unwrap(knob) > 0

\* n pieces of a segment of the given length satisfy every configured knob:
\* distance_m / n <= max_length and angle_deg / n <= max_angle.
SatisfiesKnobs(n, distance_m, options) ==
  /\ Configured(options.max_segment_length_m) =>
       distance_m * KNOB_STEPS <= n * Unwrap(options.max_segment_length_m)
  /\ Configured(options.max_segment_angle_deg) =>
       central_angle_of(distance_m) * DEGREES_PER_UNIT * KNOB_STEPS
         <= n * Unwrap(options.max_segment_angle_deg)

\* The smallest positive n that satisfies every configured knob, a knob
\* being of one knob step or more.
SmallestSplitCount(distance_m, options) ==
  CHOOSE n \in 1..(distance_m * DEGREES_PER_UNIT * KNOB_STEPS + 1) :
    /\ SatisfiesKnobs(n, distance_m, options)
    /\ \A m \in 1..(n - 1) : ~SatisfiesKnobs(m, distance_m, options)

\* The smallest split counts of the retained segments of a part, in order.
SmallestSplitCounts(deduped, options) ==
  LET retained == RetainedSegments(deduped)
  IN  [k \in 1..Len(retained) |->
         SmallestSplitCount(geodesic_distance(deduped[retained[k]],
                                              deduped[retained[k] + 1]),
                            options)]

\* The parts of a call that passed the validation of its options and of
\* its vertices, de-duplicated.
ValidatedParts ==
  IF /\ Returned("densify_polyline")
     /\ validate(call.options)
     /\ validate_polyline(call.vertices, None).ok
  THEN << collapse_duplicates(call.vertices) >>
  ELSE IF /\ Returned("densify_multiline")
          /\ validate(call.options)
          /\ PartsValid(call.parts, Len(call.parts))
  THEN [i \in 1..Len(call.parts) |-> collapse_duplicates(call.parts[i])]
  ELSE << >>

\* C11: for every retained segment the split count is the smallest positive
\* integer n for which distance_m / n <= max_length and
\* angle_deg / n <= max_angle hold for every configured knob, that is
\* max(1, ceil(distance_m / max_length), ceil(angle_deg / max_angle)) over
\* the configured knobs; a successful call returns, for each part with a
\* retained segment, one sample more than the sum of these counts.
C11_SplitCountIsSmallestSatisfyingKnobs ==
  LET validated == ValidatedParts
      densified == DensifiedParts
  IN  /\ \A p \in 1..Len(validated) :
           split_counts(build_segments(validated[p], call.options))
             = SmallestSplitCounts(validated[p], call.options)
      /\ \A p \in 1..Len(densified) :
           LET smallest == SmallestSplitCounts(densified[p].deduped, call.options)
           IN  smallest # << >> =>
                 Len(densified[p].samples) = 1 + SumSeq(smallest)

\* A segment whose angle is not a multiple of the angle knob was cut into two
\* or more pieces, the angle knob being stricter than the length knob.
C11_Witness ==
  /\ Returned("densify_polyline")
  /\ result.ok
  /\ Configured(call.options.max_segment_length_m)
  /\ Configured(call.options.max_segment_angle_deg)
  /\ LET deduped == collapse_duplicates(call.vertices)
         retained == RetainedSegments(deduped)
     IN  \E k \in 1..Len(retained) :
           LET distance == geodesic_distance(deduped[retained[k]],
                                             deduped[retained[k] + 1])
               central_angle_deg == central_angle_of(distance) * DEGREES_PER_UNIT
           IN  /\ (central_angle_deg * KNOB_STEPS)
                    % Unwrap(call.options.max_segment_angle_deg) # 0
               /\ SmallestSplitCount(distance, call.options) >= 2
               /\ CeilDiv(distance * KNOB_STEPS,
                          Unwrap(call.options.max_segment_length_m))
                    < SmallestSplitCount(distance, call.options)
               /\ Len(result.value) > SmallestSplitCount(distance, call.options)
\* Part k (1-based) contains an invalid vertex, is degenerate after
\* de-duplication, or, the parts before it and itself being valid, pushes
\* the cumulative projected count over the cap.
BadPart(parts, k, options) ==
  \/ ~validate_polyline(parts[k], None).ok
  \/ /\ PartsValid(parts, k)
     /\ CumulativeCount(parts, k, options) > options.sample_cap

\* The error of a bad part: its validation error, or the cap error with the
\* cumulative count.
ErrorOfPart(parts, k, options) ==
  IF ~validate_polyline(parts[k], None).ok
  THEN validate_polyline(parts[k], Some(k - 1))
  ELSE SampleCapExceeded(CumulativeCount(parts, k, options), options.sample_cap,
                         Some(k - 1))

\* C12: densify_multiline returns no FlattenedPolyline when a part contains
\* an invalid vertex, is degenerate after de-duplication or pushes the
\* cumulative projected sample count over the cap; with options that set a
\* knob the call fails with the error of the lowest-indexed such part, and a
\* returned FlattenedPolyline has an offset for every part of the input.
C12_MultilineFailsWithFirstBadPart ==
  Returned("densify_multiline") =>
    /\ (\E k \in 1..Len(call.parts) : BadPart(call.parts, k, call.options))
         => ~result.ok
    /\ validate(call.options) =>
         \A k \in 1..Len(call.parts) :
           ( /\ BadPart(call.parts, k, call.options)
             /\ \A j \in 1..(k - 1) : ~BadPart(call.parts, j, call.options) )
           => result = ErrorOfPart(call.parts, k, call.options)
    /\ result.ok => Len(result.value.part_offsets) = Len(call.parts) + 1

\* Both parts were bad, the first degenerate and the second with an invalid
\* vertex, and the call failed with the error of the first.
C12_Witness ==
  /\ Returned("densify_multiline")
  /\ validate(call.options)
  /\ Len(call.parts) = 2
  /\ validate_polyline(call.parts[1], None) = DegeneratePolyline(None)
  /\ ~check_vertices(call.parts[2], None).ok
  /\ result = DegeneratePolyline(Some(0))


\* A call of densify_polyline or densify_multiline has returned.
DensifyReturned == Returned("densify_polyline") \/ Returned("densify_multiline")

\* C17: densify_polyline and densify_multiline fail with
\* MissingDensificationKnob, whatever the vertices, unless at least one of
\* max_segment_length_m and max_segment_angle_deg is set and positive.
C17_MissingKnobUnlessPositive ==
  DensifyReturned =>
    ( ~( \/ Configured(call.options.max_segment_length_m)
         \/ Configured(call.options.max_segment_angle_deg) )
      <=> result = MissingDensificationKnob )

\* What the code does: the call fails with MissingDensificationKnob,
\* whatever the vertices, exactly when both knobs are unset.
BothKnobsUnsetIsRejected ==
  DensifyReturned =>
    ( (call.options.max_segment_length_m = None
         /\ call.options.max_segment_angle_deg = None)
      <=> result = MissingDensificationKnob )

\* A call whose only knob is set to zero was densified, every segment left
\* in one piece.
NonPositiveKnobAccepted ==
  /\ Returned("densify_polyline")
  /\ call.options.max_segment_length_m = Some(0)
  /\ call.options.max_segment_angle_deg = None
  /\ result.ok
  /\ Len(result.value) = 2

\* The latitude, the longitude of a vertex is not finite or out of range.
LatitudeInvalid(vertex) ==
  vertex.lat = NaN \/ vertex.lat < MIN_LAT_DEGREES \/ vertex.lat > MAX_LAT_DEGREES

LongitudeInvalid(vertex) ==
  vertex.lon = NaN \/ vertex.lon < MIN_LON_DEGREES \/ vertex.lon > MAX_LON_DEGREES

\* The positions (1-based) of the vertices with an invalid coordinate.
InvalidPositions(vertices) ==
  {i \in 1..Len(vertices) :
     LatitudeInvalid(vertices[i]) \/ LongitudeInvalid(vertices[i])}

\* The error of the first violation of a part: its part index, the smallest
\* index, in the input, of a vertex with an invalid coordinate, and the
\* axis, the latitude before the longitude.
FirstViolation(vertices, part_index) ==
  LET first == CHOOSE i \in InvalidPositions(vertices) :
                 \A j \in InvalidPositions(vertices) : i <= j
  IN  InvalidVertex(part_index, first - 1,
                    IF LatitudeInvalid(vertices[first])
                    THEN "Latitude" ELSE "Longitude")

\* C18: vertex validation fails with InvalidVertex at the first violation in
\* traversal order: with options that set a knob, a polyline, or the first
\* part of a multi-part input that is bad, having a vertex with an invalid
\* coordinate, the call fails with InvalidVertex carrying the part index
\* (none for densify_polyline), the smallest index, before de-duplication,
\* of such a vertex, and the axis, the latitude being checked before the
\* longitude; no other call fails with InvalidVertex.
C18_InvalidVertexAtFirstViolation ==
  /\ (Returned("densify_polyline") /\ validate(call.options)) =>
       IF InvalidPositions(call.vertices) # {}
       THEN result = FirstViolation(call.vertices, None)
       ELSE result.ok \/ result.error # "InvalidVertex"
  /\ (Returned("densify_multiline") /\ validate(call.options)) =>
       /\ \A k \in 1..Len(call.parts) :
            ( /\ InvalidPositions(call.parts[k]) # {}
              /\ \A j \in 1..(k - 1) : ~BadPart(call.parts, j, call.options) )
            => result = FirstViolation(call.parts[k], Some(k - 1))
       /\ (~result.ok /\ result.error = "InvalidVertex") =>
            \E k \in 1..Len(call.parts) :
              /\ InvalidPositions(call.parts[k]) # {}
              /\ result = FirstViolation(call.parts[k], Some(k - 1))

\* A polyline of two equal vertices followed by a vertex with both
\* coordinates out of range failed at index 2 on the latitude.
C18_Witness ==
  /\ Returned("densify_polyline")
  /\ validate(call.options)
  /\ Len(call.vertices) >= 3
  /\ call.vertices[1] = call.vertices[2]
  /\ LatitudeInvalid(call.vertices[3])
  /\ LongitudeInvalid(call.vertices[3])
  /\ result = InvalidVertex(None, 2, "Latitude")

\* The second part of a multi-part input failed on the longitude of its
\* second vertex.
SecondPartInvalidLongitude ==
  /\ Returned("densify_multiline")
  /\ result = InvalidVertex(Some(1), 1, "Longitude")

\* The vertices that differ from the vertex before them, in their order.
Collapsed(vertices) ==
  LET kept == {i \in 1..Len(vertices) : i = 1 \/ vertices[i] # vertices[i - 1]}
      Position(k) == CHOOSE i \in kept : Cardinality({j \in kept : j <= i}) = k
  IN  [k \in 1..Cardinality(kept) |-> vertices[Position(k)]]

\* The densification of a sequence of vertices as it stands.
DensifiedAsItStands(vertices, options, part_index) ==
  densify_segments(build_segments(vertices, options), vertices,
                   options.sample_cap, part_index)

\* C19: with options that set a knob, a part whose vertices are all valid
\* fails with DegeneratePolyline carrying its part index (none for
\* densify_polyline) exactly when collapsing consecutive equal vertices
\* leaves fewer than 2 vertices; otherwise densification proceeds on the
\* collapsed sequence, the retained vertices in their order.
C19_DegenerateAfterCollapse ==
  /\ ( /\ Returned("densify_polyline")
       /\ validate(call.options)
       /\ InvalidPositions(call.vertices) = {} ) =>
       IF Len(Collapsed(call.vertices)) < 2
       THEN result = DegeneratePolyline(None)
       ELSE result = DensifiedAsItStands(Collapsed(call.vertices), call.options, None)
  /\ (Returned("densify_multiline") /\ validate(call.options)) =>
       /\ \A k \in 1..Len(call.parts) :
            ( /\ InvalidPositions(call.parts[k]) = {}
              /\ \A j \in 1..(k - 1) : ~BadPart(call.parts, j, call.options) )
            => ( Len(Collapsed(call.parts[k])) < 2
                 <=> result = DegeneratePolyline(Some(k - 1)) )
       /\ result.ok =>
            \A k \in 1..Len(call.parts) :
              Ok(PartSamples(result.value, k))
                = DensifiedAsItStands(Collapsed(call.parts[k]), call.options,
                                      Some(k - 1))

\* The second part of a multi-part input, two or more equal valid vertices,
\* failed as degenerate after a first part that was densified.
C19_Witness ==
  /\ Returned("densify_multiline")
  /\ Len(call.parts) = 2
  /\ Len(call.parts[2]) >= 2
  /\ InvalidPositions(call.parts[2]) = {}
  /\ result = DegeneratePolyline(Some(1))

\* A polyline with a repeated vertex was densified on its collapsed
\* sequence.
CollapsedPolylineDensified ==
  /\ Returned("densify_polyline")
  /\ result.ok
  /\ Len(Collapsed(call.vertices)) = 2
  /\ Len(call.vertices) = 3
  /\ Len(result.value) >= 3

\* The split counts the cap check adds up for a part: those of the segments
\* build_segments retains.
RetainedSplitCounts(deduped, options) ==
  split_counts(build_segments(deduped, options))

\* The samples interpolate_segment emits for the segment of a descriptor.
SegmentSamples(deduped, segment) ==
  interpolate_segment(deduped[segment.start_index + 1],
                      deduped[segment.end_index + 1],
                      segment.geometry, segment.split_count)

\* C21: for every successful densification the number of samples emitted
\* for a part equals the projected count of the cap check, 1 + the sum of
\* split_count over its retained segments, each retained segment
\* contributing exactly split_count samples; the samples of a successful
\* densify_multiline are as many as the projected counts of its parts
\* together.
C21_EmittedEqualsProjectedCount ==
  LET densified == DensifiedParts
  IN  /\ \A p \in 1..Len(densified) :
           LET deduped == densified[p].deduped
               samples == densified[p].samples
               segments == build_segments(deduped, call.options)
               counts == RetainedSplitCounts(deduped, call.options)
           IN  /\ Len(segments) = Len(RetainedSegments(deduped))
               /\ Len(samples) = 1 + SumSeq(counts)
               /\ Len(samples) = ProjectedCount(deduped, call.options)
               /\ \A k \in 1..Len(segments) :
                    Len(SegmentSamples(deduped, segments[k])) = counts[k]
      /\ (Returned("densify_multiline") /\ result.ok) =>
           Len(result.value.samples)
             = CumulativeCount(call.parts, Len(call.parts), call.options)

\* A polyline whose first segment has length zero and is skipped and whose
\* second segment is cut in two was densified into three samples.
C21_Witness ==
  /\ Returned("densify_polyline")
  /\ result.ok
  /\ LET deduped == collapse_duplicates(call.vertices)
     IN  /\ Len(deduped) = 3
         /\ RetainedSegments(deduped) = << 2 >>
         /\ RetainedSplitCounts(deduped, call.options) = << 2 >>
  /\ Len(result.value) = 3

\* C22: the projected count of the cap check never wraps around the
\* machine word: a densify_polyline or densify_multiline call that passes
\* validation and whose true projected count, 1 + the sum of the split
\* counts (each a usize) plus the running total across parts, exceeds
\* sample_cap returns SampleCapExceeded carrying that true count; it never
\* passes the check with a wrapped value and never aborts the process.
C22_CapCheckNeverWraps ==
  /\ ( /\ Returned("densify_polyline")
       /\ validate(call.options)
       /\ validate_polyline(call.vertices, None).ok
       /\ ProjectedCount(call.vertices, call.options) > call.options.sample_cap )
     => result = SampleCapExceeded(ProjectedCount(call.vertices, call.options),
                                   call.options.sample_cap, None)
  /\ (Returned("densify_multiline") /\ validate(call.options)) =>
       \A k \in 0..(Len(call.parts) - 1) :
         FirstOverCap(call.parts, k, call.options) =>
           result = SampleCapExceeded(
                      CumulativeCount(call.parts, k + 1, call.options),
                      call.options.sample_cap, Some(k))

\* A single segment of one distance unit under the smallest positive length
\* knob: its split count is usize::MAX, 1 + the sum exceeds the word, and
\* the process aborted.
OverflowingCountAborts ==
  /\ Returned("densify_polyline")
  /\ call.vertices = << Point(0, 0), Point(0, 2) >>
  /\ call.options.max_segment_length_m = Some(1)
  /\ ProjectedCount(call.vertices, call.options) = USIZE_MAX + 1
  /\ result = Aborted

\* Two segments whose split counts sum to the word's modulus in a build
\* without overflow checks: the wrapped count 1 passed the cap check.
WrappedCountPassesCapCheck ==
  /\ Returned("densify_polyline")
  /\ ~call.overflow_checks
  /\ ProjectedCount(call.vertices, call.options) = USIZE_MAX + 2
  /\ call.options.sample_cap < USIZE_MAX
  /\ result = Aborted

\* A cap failure that carries a wrapped count, below the number of segments
\* it counts.
WrappedCountReported ==
  /\ Returned("densify_multiline")
  /\ ~result.ok
  /\ result.error = "SampleCapExceeded"
  /\ result.expected
       < CumulativeCount(call.parts, Len(call.parts), call.options) - USIZE_MAX

-----------------------------------------------------------------------------
(* Properties of the directed evaluations *)

SetMin(S) == CHOOSE x \in S : \A y \in S : x <= y

SetMax(S) == CHOOSE x \in S : \A y \in S : x >= y

\* (part_index, vertex_index) of one sample before that of another.
LexLess(s, t) ==
  \/ s.part_index < t.part_index
  \/ s.part_index = t.part_index /\ s.vertex_index < t.vertex_index

\* The sample of a non-empty set with the smallest (part_index, vertex_index).
LexSmallest(S) == CHOOSE s \in S : \A t \in S \ {s} : LexLess(s, t)

Range(seq) == {seq[i] : i \in 1..Len(seq)}

\* min over b in B of dist(a, b)
MinDistance(origin, candidates) ==
  SetMin({geodesic_distance(origin.point, c.point) : c \in Range(candidates)})

\* H(A -> B) = max over a in A of min over b in B of dist(a, b)
MaxMinDistance(origins, candidates) ==
  SetMax({MinDistance(o, candidates) : o \in Range(origins)})

\* The witness pair is a pair of samples of the two sets at the returned
\* distance.
Realised(witness, origins, candidates) ==
  /\ witness.source \in Range(origins)
  /\ witness.target \in Range(candidates)
  /\ witness.distance_m
       = geodesic_distance(witness.source.point, witness.target.point)

SameIndices(w1, w2) ==
  /\ w1.source.part_index = w2.source.part_index
  /\ w1.source.vertex_index = w2.source.vertex_index
  /\ w1.target.part_index = w2.target.part_index
  /\ w1.target.vertex_index = w2.target.vertex_index

\* C1: on the same non-empty origins and candidates, whatever their sizes,
\* hausdorff_directed_polyline_indexed returns the distance and the witness
\* indices that hausdorff_directed_polyline_naive returns.
C1_IndexedAgreesWithNaive ==
  Returned("hausdorff_directed_polyline_indexed") =>
    LET naive == hausdorff_directed_polyline_naive(call.origins, call.candidates)
    IN  /\ result.ok = naive.ok
        /\ result.ok =>
             /\ result.value.distance_m = naive.value.distance_m
             /\ SameIndices(result.value, naive.value)

VisitingOrders(n) ==
  {order \in [1..n -> 1..n] : \A i, j \in 1..n : i # j => order[i] # order[j]}

Reordered(candidates, order) ==
  [i \in 1..Len(candidates) |-> candidates[order[i]]]

\* C7: in the brute-force path the candidate kept for a fixed origin after
\* scanning all of B is the nearest one, the candidates whose distance ties
\* with the nearest within the tolerance resolved to the lexicographically
\* smallest (part_index, vertex_index), and the same candidate is kept in
\* every order in which the candidates are visited.  (With a single origin
\* the evaluation returns the candidate kept for it.)
C7_KeptCandidateIsNearestInAnyOrder ==
  (Returned("hausdorff_directed_polyline_naive") /\ Len(call.origins) = 1) =>
    LET origin == call.origins[1]
        n == Len(call.candidates)
        tied == {c \in Range(call.candidates) :
                   geodesic_distance(origin.point, c.point)
                     <= MinDistance(origin, call.candidates)
                          + WITNESS_DISTANCE_TOLERANCE_M}
    IN  /\ result.ok
        /\ result.value.target = LexSmallest(tied)
        /\ \A order \in VisitingOrders(n) :
             nearest_naive(origin, Reordered(call.candidates, order), n)
               = Some(result.value)

\* The nearest witness the brute-force scan keeps for each origin.
NearestOf(origins, candidates) ==
  [i \in 1..Len(origins) |->
     Unwrap(nearest_naive(origins[i], candidates, Len(candidates)))]

\* C8: the brute-force evaluation returns the nearest witness of the origin
\* with the largest nearest-candidate distance, the origins whose nearest
\* distance ties with the largest within the tolerance resolved to the
\* lexicographically smallest (source.part_index, source.vertex_index).
\* (Every origin has one nearest witness, so no two witnesses of one source
\* remain to be told apart by their targets.)
C8_WorstOriginWithSourceTieBreak ==
  Returned("hausdorff_directed_polyline_naive") =>
    LET nearest == NearestOf(call.origins, call.candidates)
        largest == SetMax({nearest[i].distance_m : i \in DOMAIN nearest})
        tied == {i \in DOMAIN nearest :
                   nearest[i].distance_m + WITNESS_DISTANCE_TOLERANCE_M >= largest}
        first == CHOOSE i \in tied :
                   \A j \in tied \ {i} : LexLess(call.origins[i], call.origins[j])
    IN  result.ok /\ result.value = nearest[first]

\* C9: the directed evaluation of a non-empty sample set against itself, by
\* either strategy, returns distance exactly 0.
C9_SelfDistanceIsZero ==
  ( /\ \/ Returned("hausdorff_directed_polyline_naive")
       \/ Returned("hausdorff_directed_polyline_indexed")
    /\ call.origins = call.candidates ) =>
    result.ok /\ result.value.distance_m = 0

\* The brute-force evaluation alone returns 0 for a set against itself.
NaiveSelfDistanceIsZero ==
  ( /\ Returned("hausdorff_directed_polyline_naive")
    /\ call.origins = call.candidates ) =>
    result.ok /\ result.value.distance_m = 0


\* The order yields the candidates in non-decreasing geodesic distance from
\* the origin.
NonDecreasingDistance(origin, candidates, order) ==
  \A i \in 1..(Len(candidates) - 1) :
    geodesic_distance(origin.point, candidates[order[i]].point)
      <= geodesic_distance(origin.point, candidates[order[i + 1]].point)

\* The candidate the indexed loop retains for the i-th origin of the call.
RetainedFor(i) ==
  nearest_indexed(call.origins[i], call.candidates, call.orders[i],
                  Len(call.candidates)).nearest

\* C20: in the indexed path, the index yielding the candidates in
\* non-decreasing geodesic distance from the origin, the candidate retained
\* for each origin when the enumeration stops is within the tolerance of the
\* minimum distance from that origin to any candidate.
C20_RetainedWithinToleranceOfNearest ==
  Returned("hausdorff_directed_polyline_indexed") =>
    \A i \in 1..Len(call.origins) :
      NonDecreasingDistance(call.origins[i], call.candidates, call.orders[i]) =>
        RetainedFor(i).distance_m
          <= MinDistance(call.origins[i], call.candidates)
               + WITNESS_DISTANCE_TOLERANCE_M

\* What the loop ensures: the first candidate yielded is at the minimum
\* distance, and the retained one is no further from it than one tolerance
\* for every candidate yielded after the first.
RetainedWithinChainOfNearest ==
  Returned("hausdorff_directed_polyline_indexed") =>
    \A i \in 1..Len(call.origins) :
      /\ geodesic_distance(call.origins[i].point,
                           call.candidates[call.orders[i][1]].point)
           = MinDistance(call.origins[i], call.candidates)
      /\ RetainedFor(i).distance_m
           <= MinDistance(call.origins[i], call.candidates)
                + (Len(call.candidates) - 1) * WITNESS_DISTANCE_TOLERANCE_M

-----------------------------------------------------------------------------
(* Properties of hausdorff_polyline *)

\* directed(A, B) and directed(B, A) for the samples of the call.
ForwardOf(c) ==
  hausdorff_directed_polyline(c.enumerated_a, c.enumerated_b, << >>).value

ReverseOf(c) ==
  hausdorff_directed_polyline(c.enumerated_b, c.enumerated_a, << >>).value

\* The result of hausdorff_polyline is that of one directed evaluation.
ReturnsDirected(directed) ==
  /\ result.value.distance = directed.distance_m
  /\ call.options.return_witness =>
       result.value.witness = Some(map_directed_witness(directed))

\* C3: with symmetric = true a successful hausdorff_polyline returns a
\* distance within the tolerance of max(directed(A,B), directed(B,A)): the
\* directed result of the larger distance, and the forward result when the
\* two distances differ by at most the tolerance.
C3_SymmetricReturnsDominantDirection ==
  (Returned("hausdorff_polyline") /\ call.options.symmetric /\ result.ok) =>
    LET forward == ForwardOf(call)
        reverse == ReverseOf(call)
    IN  /\ Abs(result.value.distance - Max(forward.distance_m, reverse.distance_m))
             <= WITNESS_DISTANCE_TOLERANCE_M
        /\ IF Abs(forward.distance_m - reverse.distance_m)
                <= WITNESS_DISTANCE_TOLERANCE_M
           THEN ReturnsDirected(forward)
           ELSE IF forward.distance_m > reverse.distance_m
           THEN ReturnsDirected(forward)
           ELSE ReturnsDirected(reverse)

\* A symmetric call has returned the forward witness although the reverse
\* distance is the larger, by no more than the tolerance.
C3_Witness ==
  /\ Returned("hausdorff_polyline")
  /\ call.options.symmetric
  /\ call.options.return_witness
  /\ result.ok
  /\ LET forward == ForwardOf(call)
         reverse == ReverseOf(call)
     IN  /\ reverse.distance_m > forward.distance_m
         /\ reverse.distance_m <= forward.distance_m + WITNESS_DISTANCE_TOLERANCE_M
         /\ result.value.witness = Some(map_directed_witness(forward))
         /\ map_directed_witness(forward) # map_directed_witness(reverse)

\* A symmetric call has returned the reverse result, larger than the forward
\* one by more than the tolerance.
ReverseDominates ==
  /\ Returned("hausdorff_polyline")
  /\ call.options.symmetric
  /\ result.ok
  /\ LET forward == ForwardOf(call)
         reverse == ReverseOf(call)
     IN  /\ reverse.distance_m > forward.distance_m + WITNESS_DISTANCE_TOLERANCE_M
         /\ result.value.distance = reverse.distance_m

\* The densified samples of an operand that lie in the bounding box of the
\* options, all of them without a box.
SamplesInBox(polyline, options) ==
  LET flattened == densify_multiline(polyline, densification_options(options))
      InBox(point) == contains(Unwrap(options.bounding_box), point)
  IN  IF IsSome(options.bounding_box)
      THEN SelectSeq(flattened.value.samples, InBox)
      ELSE flattened.value.samples

\* Both operands were densified without an error.
BothDensified ==
  /\ densify_multiline(call.polyline_a, densification_options(call.options)).ok
  /\ densify_multiline(call.polyline_b, densification_options(call.options)).ok

\* C13: hausdorff_polyline, both operands densified, fails with
\* EmptyPointSet whenever an operand has no samples, also when the clip to
\* the bounding box removes every sample of A or every sample of B; it
\* returns no distance computed from an empty operand.
C13_EmptyOperandFails ==
  Returned("hausdorff_polyline") =>
    /\ ( /\ BothDensified
         /\ \/ SamplesInBox(call.polyline_a, call.options) = << >>
            \/ SamplesInBox(call.polyline_b, call.options) = << >> )
       => result = EmptyPointSet
    /\ result.ok =>
         /\ BothDensified
         /\ SamplesInBox(call.polyline_a, call.options) # << >>
         /\ SamplesInBox(call.polyline_b, call.options) # << >>

\* A has parts and samples, the box kept none of them while it kept samples
\* of B, and the call failed with EmptyPointSet.
C13_Witness ==
  /\ Returned("hausdorff_polyline")
  /\ BothDensified
  /\ IsSome(call.options.bounding_box)
  /\ call.polyline_a # << >>
  /\ SamplesInBox(call.polyline_a, call.options) = << >>
  /\ SamplesInBox(call.polyline_b, call.options) # << >>
  /\ result = EmptyPointSet

\* The samples of part number part (0-based) of the input after
\* densification and the clip to the bounding box of the options, if any.
PostClipPart(parts, part, options) ==
  LET densified == densify_polyline(parts[part + 1], densification_options(options))
      InBox(point) == contains(Unwrap(options.bounding_box), point)
  IN  IF IsSome(options.bounding_box)
      THEN SelectSeq(densified.value, InBox)
      ELSE densified.value

\* (part, index) is the position of a sample of the post-clip densified
\* geometry of parts, part being the position of the part in the input, and
\* coord is that sample's point.
IdentifiesSample(parts, part, index, coord, options) ==
  /\ part \in 0..(Len(parts) - 1)
  /\ LET samples == PostClipPart(parts, part, options)
     IN  /\ index \in 0..(Len(samples) - 1)
         /\ coord = samples[index + 1]

\* The witness has its source in source_parts and its target in
\* target_parts.
WitnessBetween(witness, source_parts, target_parts, options) ==
  /\ IdentifiesSample(source_parts, witness.source_part, witness.source_index,
                      witness.source_coord, options)
  /\ IdentifiesSample(target_parts, witness.target_part, witness.target_index,
                      witness.target_coord, options)

\* C23: whenever hausdorff_polyline returns a witness, (source_part,
\* source_index) and (target_part, target_index) each identify an existing
\* sample of the post-clip densified geometry of their side, the part
\* indices being the positions of the parts in the input, and source_coord
\* and target_coord are those samples' points: the source is of A and the
\* target of B, or, in symmetric mode alone, the source of B and the target
\* of A; the witness distance is the distance between the two points.
C23_WitnessIdentifiesSamples ==
  ( /\ Returned("hausdorff_polyline")
    /\ result.ok
    /\ IsSome(result.value.witness) ) =>
    LET witness == Unwrap(result.value.witness)
    IN  /\ \/ WitnessBetween(witness, call.polyline_a, call.polyline_b,
                             call.options)
           \/ /\ call.options.symmetric
              /\ WitnessBetween(witness, call.polyline_b, call.polyline_a,
                                call.options)
        /\ witness.distance
             = geodesic_distance(witness.source_coord, witness.target_coord)
        /\ witness.distance = result.value.distance

\* A symmetric evaluation returned the reverse direction: the target is a
\* sample of the second part of A, and the source is a sample of B that is
\* not the first of its part and no sample of A.
C23_Witness ==
  /\ Returned("hausdorff_polyline")
  /\ result.ok
  /\ IsSome(result.value.witness)
  /\ call.options.symmetric
  /\ Len(call.polyline_a) = 2
  /\ Unwrap(result.value.witness).target_part = 1
  /\ Unwrap(result.value.witness).source_part = 0
  /\ Unwrap(result.value.witness).source_index > 0
  /\ ~WitnessBetween(Unwrap(result.value.witness), call.polyline_a,
                     call.polyline_b, call.options)

\* The first part of A lost all its samples to the clip, and the source of
\* the witness is a sample of the second part, under its index in the input.
WitnessInPartAfterEmptiedPart ==
  /\ Returned("hausdorff_polyline")
  /\ result.ok
  /\ IsSome(result.value.witness)
  /\ IsSome(call.options.bounding_box)
  /\ Len(call.polyline_a) = 2
  /\ PostClipPart(call.polyline_a, 0, call.options) = << >>
  /\ Unwrap(result.value.witness).source_part = 1

-----------------------------------------------------------------------------
(* Properties of FlattenedPolyline::clip *)

\* The samples of a sequence inside the box, in their order.
InsideBox(samples, bounding_box) ==
  LET Inside(point) ==
        /\ bounding_box.min_lat <= point.lat /\ point.lat <= bounding_box.max_lat
        /\ bounding_box.min_lon <= point.lon /\ point.lon <= bounding_box.max_lon
  IN  SelectSeq(samples, Inside)

\* C14: clip keeps, for each part independently, exactly the samples inside
\* the inclusive bounding box in their original relative order, keeps
\* part_offsets.length = parts + 1, a part that loses all its samples
\* staying as an empty part, and fails with EmptyPointSet exactly when no
\* sample of any part is kept.
C14_ClipKeepsInsideSamplesPerPart ==
  Returned("clip") =>
    LET parts == Len(call.polyline.part_offsets) - 1
    IN  /\ (result = EmptyPointSet)
             <=> InsideBox(call.polyline.samples, call.bounding_box) = << >>
        /\ result.ok \/ result = EmptyPointSet
        /\ result.ok =>
             /\ Len(result.value.part_offsets) = parts + 1
             /\ result.value.part_offsets[1] = 0
             /\ result.value.part_offsets[parts + 1] = Len(result.value.samples)
             /\ \A i \in 1..parts :
                  /\ result.value.part_offsets[i] <= result.value.part_offsets[i + 1]
                  /\ PartSamples(result.value, i)
                       = InsideBox(PartSamples(call.polyline, i), call.bounding_box)

\* A part with samples lost all of them and stayed as an empty part before
\* a part that kept samples on the edge of the box and lost others.
C14_Witness ==
  /\ Returned("clip")
  /\ result.ok
  /\ Len(call.polyline.part_offsets) = 3
  /\ PartSamples(call.polyline, 1) # << >>
  /\ PartSamples(result.value, 1) = << >>
  /\ Len(PartSamples(result.value, 2)) < Len(PartSamples(call.polyline, 2))
  /\ \E i \in 1..Len(result.value.samples) :
       result.value.samples[i].lon = call.bounding_box.max_lon

\* C15: clipping is idempotent: clipping the value of a successful
\* p.clip(b) with b again succeeds and returns the same samples and
\* part_offsets.
C15_ClipIsIdempotent ==
  (Returned("clip") /\ call.clipped_by = Some(call.bounding_box)) =>
    result = Ok(call.polyline)

\* The value of a clip that removed samples and left an empty part was
\* clipped with the same box again.
C15_Witness ==
  /\ Returned("clip")
  /\ call.clipped_by = Some(call.bounding_box)
  /\ result.ok
  /\ \E i \in 1..(Len(call.polyline.part_offsets) - 1) :
       PartSamples(call.polyline, i) = << >>
  /\ \E i \in 1..(Len(call.polyline.part_offsets) - 1) :
       Len(PartSamples(call.polyline, i)) >= 2

-----------------------------------------------------------------------------
(* Properties of the strategy selector *)

\* C16: the strategy selector is a function of the two set sizes: it
\* selects brute force exactly when min(|A|, |B|) < 32 or |A| * |B| <= 4000,
\* and the indexed strategy in every other case.
C16_StrategyFromSizes ==
  Returned("choose_strategy") =>
    LET brute_force == \/ call.a_len < 32
                       \/ call.b_len < 32
                       \/ call.a_len * call.b_len <= 4000
    IN  /\ brute_force => result = "Naive"
        /\ ~brute_force => result = "Indexed"
        /\ result = choose_strategy(call.b_len, call.a_len)

\* Two sets of 32 or more samples each with a cross product of exactly 4000
\* went to brute force.
C16_Witness ==
  /\ Returned("choose_strategy")
  /\ call.a_len >= 32
  /\ call.b_len >= 32
  /\ call.a_len * call.b_len = 4000
  /\ result = "Naive"

\* Two sets of 32 or more samples each went to the indexed strategy.
IndexedChosen ==
  /\ Returned("choose_strategy")
  /\ call.a_len = 32
  /\ result = "Indexed"

\* C24: the strategy depends on the unordered pair of the set sizes alone:
\* choose_strategy(m, n) = choose_strategy(n, m) and
\* should_use_naive(m, n) = should_use_naive(n, m), also where the product
\* of the sizes saturates, so the two directed evaluations of a symmetric
\* evaluation, which hand the same two sizes to choose_strategy in either
\* order, run the same strategy.
C24_StrategyIsSymmetric ==
  Returned("choose_strategy") =>
    LET forward == result
        reverse == choose_strategy(call.b_len, call.a_len)
    IN  /\ forward = reverse
        /\ should_use_naive(call.a_len, call.b_len)
             <=> should_use_naive(call.b_len, call.a_len)
        /\ forward \in {"Naive", "Indexed"}
        /\ (forward = "Naive")
             <=> \/ Min(call.b_len, call.a_len) < MIN_INDEXED_POLYLINE_SIZE
                 \/ saturating_mul(call.b_len, call.a_len) <= MAX_NAIVE_CROSS_PRODUCT

\* The first set is large and the second below the minimum size of the
\* indexed strategy, with a cross product above the threshold: brute force
\* was chosen, as it is for the sizes exchanged.
C24_Witness ==
  /\ Returned("choose_strategy")
  /\ call.a_len >= MIN_INDEXED_POLYLINE_SIZE
  /\ call.b_len < MIN_INDEXED_POLYLINE_SIZE
  /\ call.a_len * call.b_len > MAX_NAIVE_CROSS_PRODUCT
  /\ result = "Naive"

\* Two sizes whose product exceeds usize::MAX went to the indexed strategy.
SaturatedProductIndexed ==
  /\ Returned("choose_strategy")
  /\ call.a_len * call.b_len > USIZE_MAX
  /\ call.a_len # call.b_len
  /\ Min(call.a_len, call.b_len) >= MIN_INDEXED_POLYLINE_SIZE
  /\ result = "Indexed"

====
